---- MODULE Spec2Model ----
(***************************************************************************)
(* Lane_Detect, main.py: the main loop (camera -> angle -> serial channel) *)
(* and the key-input thread handle_key_input, which share the globals      *)
(* key_input_flag, command and paused without any lock.  One action per    *)
(* statement that reads or writes shared state, so that every interleaving *)
(* of the two threads is a behaviour.                                      *)
(*                                                                         *)
(* Strings are sequences of one-character strings: '' is << >>, 'w' is     *)
(* <<"w">>, and the frame f"A{int(angle)}\n" is <<"A", n, "\n">>.            *)
(***************************************************************************)
EXTENDS Integers, Sequences, FiniteSets, TLC

\* ---------------------------------------------------------------- bounds
\* operator input lines read by input() in one run
MaxInputs == 3

\* angles n/d handed to send_angle_to_arduino: |n| <= MaxNum, 1 <= d <= MaxDen
MaxNum == 400
MaxDen == 10
\* segments in one HoughLinesP result
MaxSegs == 2

\* ------------------------------------------------------ operator input
\* str.lower() on the characters the operator lines below are made of
LowerChar(c) ==
    CASE c = "W" -> "w"
      [] c = "S" -> "s"
      [] c = "P" -> "p"
      [] c = "Q" -> "q"
      [] OTHER   -> c

Whitespace == {" ", "\t"}

RECURSIVE LStrip(_)
LStrip(s) ==
    IF s # << >> /\ Head(s) \in Whitespace THEN LStrip(Tail(s)) ELSE s

RECURSIVE RStrip(_)
RStrip(s) ==
    IF s # << >> /\ s[Len(s)] \in Whitespace
    THEN RStrip(SubSeq(s, 1, Len(s) - 1))
    ELSE s

\* str.strip()
Strip(s) == RStrip(LStrip(s))

\* str.lower()
Lower(s) == [i \in 1..Len(s) |-> LowerChar(s[i])]

\* input(...).strip().lower()
Normalize(raw) == Lower(Strip(raw))

\* the lines the operator types (what input() returns)
RawLines ==
    { <<"w">>, <<" ", "S">>, <<"p">>, <<"P", " ">>, <<"q">>, <<"Q">>,
      <<"z">>, <<" ">>, <<"w", "s">> }

\* the list of line 167
DriveKeys == {"w", "s", "a", "d", "x", "+", "-"}

\* user_input == 'q'
IsQuit(u) == u = <<"q">>

DriveString == <<"w", "s", "a", "d", "x", "+", "-">>

MutIsDrive_substring(u) ==
    \E i \in 1..(Len(DriveString) + 1) :
        /\ i + Len(u) - 1 <= Len(DriveString)
        /\ SubSeq(DriveString, i, i + Len(u) - 1) = u

\* user_input in ['w', 's', 'a', 'd', 'x', '+', '-']
IsDrive(u) == Len(u) = 1 /\ u[1] \in DriveKeys

\* user_input == 'p'
IsToggle(u) == u = <<"p">>

\* ------------------------------------------------------------ perception
\* np.degrees(np.arctan2(dy, dx)) for the directions the segments below take
Atan2Deg(dy, dx) ==
    CASE dy = 0 /\ dx >= 0       -> 0
      [] dy = 0 /\ dx < 0        -> 180
      [] dx = 0 /\ dy > 0        -> 90
      [] dx = 0 /\ dy < 0        -> -90
      [] dy > 0 /\ dx = dy       -> 45
      [] dy > 0 /\ dx = -dy      -> 135
      [] dy < 0 /\ dx = -dy      -> -45
      [] dy < 0 /\ dx = dy       -> -135

\* line 121-122: the orientation of one segment <<x1, y1, x2, y2>>
SegAngle(seg) == Atan2Deg(seg[4] - seg[2], seg[3] - seg[1])

RECURSIVE AngleSum(_)
AngleSum(segs) ==
    IF segs = << >> THEN 0 ELSE SegAngle(Head(segs)) + AngleSum(Tail(segs))

\* what cv2.HoughLinesP may return: None, or a list of segments
NoLines == [kind |-> "None", segs |-> << >>]
ListOf(segs) == [kind |-> "list", segs |-> segs]

\* the results the main loop of Spec meets
LineSets ==
    { NoLines,
      ListOf(<< >>),
      ListOf(<< <<0, 0, 10, 10>> >>),
      ListOf(<< <<0, 0, 10, -10>> >>),
      ListOf(<< <<0, 0, 10, 10>>, <<0, 0, 0, -10>> >>) }

\* segments between the corners of a square, in both endpoint orders: the
\* eight directions that are multiples of 45 degrees, and the zero segment
Coords == {0, 10}
Segments == { <<x1, y1, x2, y2>> : x1 \in Coords, y1 \in Coords, x2 \in Coords, y2 \in Coords }

RECURSIVE SegLists(_)
SegLists(k) ==
    IF k = 0 THEN { << >> }
    ELSE SegLists(k - 1) \cup
         { Append(l, g) : l \in { m \in SegLists(k - 1) : Len(m) = k - 1 }, g \in Segments }

\* every result of at most MaxSegs such segments
AllLineSets == { NoLines } \cup { ListOf(l) : l \in SegLists(MaxSegs) }

MutNoSegments_noneonly(lines) == lines.kind = "None"

\* lines is None or len(lines) == 0
NoSegments(lines) == lines.kind = "None" \/ Len(lines.segs) = 0

MutCalculateAngle_sum(lines) ==
    IF NoSegments(lines)
    THEN [n |-> 0, d |-> 1]
    ELSE [n |-> AngleSum(lines.segs), d |-> 1]

\* calculate_angle: the mean orientation in degrees, as the rational n/d
calculate_angle(lines) ==
    IF NoSegments(lines)
    THEN [n |-> 0, d |-> 1]
    ELSE [n |-> AngleSum(lines.segs), d |-> Len(lines.segs)]

MutIntTrunc_floor(a) == a.n \div a.d

\* int(angle): truncation toward zero
IntTrunc(a) == IF a.n >= 0 THEN a.n \div a.d ELSE -((-a.n) \div a.d)

\* f"A{int(angle)}\n".encode()
AngleFrame(a) == <<"A", IntTrunc(a), "\n">>

IsAngleFrame(b) == Len(b) = 3 /\ b[1] = "A"

MutPauseByte_upper == <<"P">>

\* b'p'
PauseByte == <<"p">>

MutCommandBytes_newline(c) == c \o <<"\n">>

\* command.encode()
CommandBytes(c) == c

MutFlip_set(p) == TRUE

\* paused = not paused
Flip(p) == ~p

MutStoreCommand_keep(old, new) == IF old # << >> THEN old ELSE new

\* command = user_input / command = 'q': the slot holds one value
StoreCommand(old, new) == new

\* ----------------------------------------------------------------- state
VARIABLES
    key_input_flag,  \* global, line 62
    command,         \* global, line 63
    paused,          \* global, line 64
    user_input,      \* local of handle_key_input
    angle,           \* local of the main loop, line 231
    lines,           \* local of the main loop, line 225
    picam2,          \* the camera: "unbound", "created", "started", "stopped", "closed"
    ser,             \* the serial port: "unopened", "open", "closed"
    mpc,             \* position of the main thread
    lpc,             \* position of the key-input thread
    writing,         \* the threads that are inside a ser.write call
    chan,            \* the most recent ser.write call (empty before the first)
    nIn,             \* history: lines read by input() so far
    nToggle,         \* history: how many of them were the token p
    flagKind,        \* history: the kind of the line that raised key_input_flag
    stale,           \* history: command is older than the line that raised the flag
    acted,           \* history: the value in command was written at line 201
    polled,          \* history: the main loop touched the slot since command was assigned
    dropped,         \* history: values overwritten in the slot with no poll in between
    lost,            \* history: line 203 cleared a deposit that was never acted on
    pWritten,        \* history: an odd number of p bytes has been written
    pFailed,         \* history: a write of the p byte raised
    nSerClose,       \* history: calls of ser.close()
    nCamClose        \* history: calls of picam2.close()

shared == <<key_input_flag, command, paused>>
locals == <<user_input, angle, lines>>
devices == <<picam2, ser, nSerClose, nCamClose>>
hist == <<nIn, nToggle, flagKind, stale, acted, polled, dropped, lost>>
pbytes == <<pWritten, pFailed>>
vars == <<shared, locals, devices, mpc, lpc, writing, chan, hist, pbytes>>

\* a local that holds no value a later statement reads: angle before line 231
\* and after line 234, lines before line 225 and after line 240, user_input
\* once its line has been handled
NoAngle == [n |-> 0, d |-> 1]
NoLinesYet == [kind |-> "unbound", segs |-> << >>]
NoInput == << >>

\* one ser.write call, with the facts about the moment of the call
Entry(b, by, half, tog, drp) ==
    [b |-> b, by |-> by, paused |-> paused, open |-> (ser = "open"),
     half |-> half, tog |-> tog, dropped |-> drp]

Log(e) == <<e>>

Init ==
    /\ key_input_flag = FALSE
    /\ command = << >>
    /\ paused = FALSE
    /\ user_input = NoInput
    /\ angle = NoAngle
    /\ lines = NoLinesYet
    /\ picam2 = "unbound"
    /\ ser = "unopened"
    /\ mpc = "open_serial"
    /\ lpc = "off"
    /\ writing = {}
    /\ chan = << >>
    /\ nIn = 0 /\ nToggle = 0
    /\ flagKind = "none"
    /\ stale = FALSE
    /\ acted = TRUE
    /\ polled = TRUE
    /\ dropped = {}
    /\ lost = FALSE
    /\ pWritten = FALSE /\ pFailed = FALSE
    /\ nSerClose = 0 /\ nCamClose = 0

\* ------------------------------------------------------------ main thread
\* the statements inside the try block of lines 182-247
TryBody ==
    { "cam_create", "cam_start", "thread_start", "chk_flag", "chk_q", "chk_p",
      "write_cmd", "write_cmd_ret", "reset_flag", "chk_paused", "perceive",
      "send_angle", "send_angle_ret", "waitkey" }

\* line 34: serial.Serial(...) succeeds
OpenSerial ==
    /\ mpc = "open_serial"
    /\ ser' = "open"
    /\ mpc' = "cam_create"
    /\ UNCHANGED <<pbytes, shared, locals, picam2, nSerClose, nCamClose, lpc, writing, chan, hist>>

MutAfterOpenFailure_continue == "cam_create"

\* line 38: exit() ends the process
AfterOpenFailure == "exited"

\* lines 36-38: serial.SerialException, exit()
OpenSerialFail ==
    /\ mpc = "open_serial"
    /\ mpc' = AfterOpenFailure
    /\ UNCHANGED <<pbytes, shared, locals, devices, lpc, writing, chan, hist>>

\* line 184: picam2 = Picamera2()
CamCreate ==
    /\ mpc = "cam_create"
    /\ picam2' = "created"
    /\ mpc' = "cam_start"
    /\ UNCHANGED <<pbytes, shared, locals, ser, nSerClose, nCamClose, lpc, writing, chan, hist>>

\* line 184 raises: picam2 is never bound, control goes to finally
CamCreateFail ==
    /\ mpc = "cam_create"
    /\ mpc' = "fin_stop"
    /\ UNCHANGED <<pbytes, shared, locals, devices, lpc, writing, chan, hist>>

\* line 185: picam2.start()
CamStart ==
    /\ mpc = "cam_start"
    /\ picam2' = "started"
    /\ mpc' = "thread_start"
    /\ UNCHANGED <<pbytes, shared, locals, ser, nSerClose, nCamClose, lpc, writing, chan, hist>>

\* line 185 raises
CamStartFail ==
    /\ mpc = "cam_start"
    /\ mpc' = "fin_stop"
    /\ UNCHANGED <<pbytes, shared, locals, devices, lpc, writing, chan, hist>>

\* lines 188-189: the daemon thread starts running handle_key_input
ThreadStart ==
    /\ mpc = "thread_start"
    /\ lpc' = "input"
    /\ mpc' = "chk_flag"
    /\ UNCHANGED <<pbytes, shared, locals, devices, writing, chan, hist>>

\* line 193: if key_input_flag
ChkFlag ==
    /\ mpc = "chk_flag"
    /\ mpc' = IF key_input_flag THEN "chk_q" ELSE "chk_paused"
    /\ polled' = TRUE
    /\ UNCHANGED <<pbytes, shared, locals, devices, lpc, writing, chan,
                   nIn, nToggle, flagKind, stale, acted, dropped, lost>>

\* lines 194-195: if command == 'q': break
ChkQ ==
    /\ mpc = "chk_q"
    /\ mpc' = IF IsQuit(command) THEN "fin_stop" ELSE "chk_p"
    /\ polled' = TRUE
    /\ UNCHANGED <<pbytes, shared, locals, devices, lpc, writing, chan,
                   nIn, nToggle, flagKind, stale, acted, dropped, lost>>

\* lines 196-199: elif command == 'p': pass / else
ChkP ==
    /\ mpc = "chk_p"
    /\ mpc' = IF IsToggle(command) THEN "reset_flag" ELSE "write_cmd"
    /\ polled' = TRUE
    /\ UNCHANGED <<pbytes, shared, locals, devices, lpc, writing, chan,
                   nIn, nToggle, flagKind, stale, acted, dropped, lost>>

\* line 201: ser.write(command.encode()) is called
WriteCmdCall ==
    /\ mpc = "write_cmd"
    /\ chan' = Log(Entry(CommandBytes(command), "main",
                         flagKind \in {"drive", "q"} /\ stale,
                         flagKind = "p" /\ stale,
                         command \in dropped))
    /\ writing' = writing \cup {"main"}
    /\ acted' = TRUE
    /\ polled' = TRUE
    /\ mpc' = "write_cmd_ret"
    /\ UNCHANGED <<pbytes, shared, locals, devices, lpc,
                   nIn, nToggle, flagKind, stale, dropped, lost>>

\* lines 201-202: the write returns
WriteCmdRet ==
    /\ mpc = "write_cmd_ret"
    /\ writing' = writing \ {"main"}
    /\ mpc' = "reset_flag"
    /\ UNCHANGED <<pbytes, shared, locals, devices, lpc, chan, hist>>

\* line 201 raises serial.SerialException: no handler, control goes to finally
WriteCmdFail ==
    /\ mpc = "write_cmd_ret"
    /\ writing' = writing \ {"main"}
    /\ mpc' = "fin_stop"
    /\ UNCHANGED <<pbytes, shared, locals, devices, lpc, chan, hist>>

\* line 203: key_input_flag = False
ResetFlag ==
    /\ mpc = "reset_flag"
    /\ key_input_flag' = FALSE
    /\ flagKind' = "none"
    /\ stale' = FALSE
    /\ lost' = (lost \/ (key_input_flag /\ ~acted))
    /\ polled' = TRUE
    /\ mpc' = "chk_paused"
    /\ UNCHANGED <<pbytes, command, paused, locals, devices, lpc, writing, chan,
                   nIn, nToggle, acted, dropped>>

\* lines 206-207: if paused: continue
ChkPaused ==
    /\ mpc = "chk_paused"
    /\ mpc' = IF paused THEN "chk_flag" ELSE "perceive"
    /\ UNCHANGED <<pbytes, shared, locals, devices, lpc, writing, chan, hist>>

\* lines 212-231: capture, preprocess, HoughLinesP, calculate_angle
PerceiveFrom(results) ==
    /\ mpc = "perceive"
    /\ lines' \in results
    /\ angle' = calculate_angle(lines')
    /\ mpc' = "send_angle"
    /\ UNCHANGED <<pbytes, shared, user_input, devices, lpc, writing, chan, hist>>

Perceive == PerceiveFrom(LineSets)

\* lines 212-231 raise (capture_array or an OpenCV call)
PerceiveFail ==
    /\ mpc = "perceive"
    /\ mpc' = "fin_stop"
    /\ UNCHANGED <<pbytes, shared, locals, devices, lpc, writing, chan, hist>>

\* line 234 -> 137: ser.write(f"A{int(angle)}\n".encode()) is called
SendAngleCall ==
    /\ mpc = "send_angle"
    /\ chan' = Log(Entry(AngleFrame(angle), "main", FALSE, FALSE, FALSE))
    /\ writing' = writing \cup {"main"}
    /\ angle' = NoAngle
    /\ mpc' = "send_angle_ret"
    /\ UNCHANGED <<pbytes, shared, user_input, lines, devices, lpc, hist>>

\* line 137: the write returns
SendAngleRet ==
    /\ mpc = "send_angle_ret"
    /\ writing' = writing \ {"main"}
    /\ mpc' = "waitkey"
    /\ UNCHANGED <<pbytes, shared, locals, devices, lpc, chan, hist>>

\* line 137 raises serial.SerialException
SendAngleFail ==
    /\ mpc = "send_angle_ret"
    /\ writing' = writing \ {"main"}
    /\ mpc' = "fin_stop"
    /\ UNCHANGED <<pbytes, shared, locals, devices, lpc, chan, hist>>

\* lines 237-246: draw, imshow, waitKey(1) returns no 'q'
WaitKey ==
    /\ mpc = "waitkey"
    /\ lines' = NoLinesYet
    /\ mpc' = "chk_flag"
    /\ UNCHANGED <<pbytes, shared, user_input, angle, devices, lpc, writing, chan, hist>>

\* lines 246-247: 'q' pressed in the OpenCV window: break
WindowQuit ==
    /\ mpc = "waitkey"
    /\ lines' = NoLinesYet
    /\ mpc' = "fin_stop"
    /\ UNCHANGED <<pbytes, shared, user_input, angle, devices, lpc, writing, chan, hist>>

\* Ctrl-C while the main thread is inside the try block
KeyboardInterrupt ==
    /\ mpc \in TryBody
    /\ writing' = writing \ {"main"}
    /\ mpc' = "except_ki"
    /\ UNCHANGED <<pbytes, shared, locals, devices, lpc, chan, hist>>

\* lines 249-250: except KeyboardInterrupt
ExceptKI ==
    /\ mpc = "except_ki"
    /\ mpc' = "fin_stop"
    /\ UNCHANGED <<pbytes, shared, locals, devices, lpc, writing, chan, hist>>

\* line 253: picam2.stop()
FinStop ==
    /\ mpc = "fin_stop"
    /\ picam2 # "unbound"
    /\ picam2' = "stopped"
    /\ mpc' = "fin_close"
    /\ UNCHANGED <<pbytes, shared, locals, ser, nSerClose, nCamClose, lpc, writing, chan, hist>>

\* line 253 when line 184 raised: picam2 is not defined, NameError leaves the
\* finally block and ends the process
FinStopNameError ==
    /\ mpc = "fin_stop"
    /\ picam2 = "unbound"
    /\ mpc' = "exited"
    /\ UNCHANGED <<pbytes, shared, locals, devices, lpc, writing, chan, hist>>

\* lines 254-255: picam2.close(); cv2.destroyAllWindows()
FinClose ==
    /\ mpc = "fin_close"
    /\ picam2' = "closed"
    /\ nCamClose' = nCamClose + 1
    /\ mpc' = "fin_ser_close"
    /\ UNCHANGED <<pbytes, shared, locals, ser, nSerClose, lpc, writing, chan, hist>>

\* line 256: ser.close()
FinSerClose ==
    /\ mpc = "fin_ser_close"
    /\ ser' = "closed"
    /\ nSerClose' = nSerClose + 1
    /\ mpc' = "shutdown"
    /\ UNCHANGED <<pbytes, shared, locals, picam2, nCamClose, lpc, writing, chan, hist>>

\* the main thread has ended; the interpreter exits and the daemon thread dies
ProcessExit ==
    /\ mpc = "shutdown"
    /\ mpc' = "exited"
    /\ UNCHANGED <<pbytes, shared, locals, devices, lpc, writing, chan, hist>>

\* ------------------------------------------------------- key-input thread
\* the daemon thread runs until the process has exited
Alive == mpc # "exited"

\* lines 160-177: input() returns a line; the if/elif chain picks the branch
Input ==
    /\ Alive
    /\ lpc = "input"
    /\ nIn < MaxInputs
    /\ \E raw \in RawLines :
          /\ user_input' = Normalize(raw)
          /\ nToggle' = IF Normalize(raw) = <<"p">> THEN nToggle + 1 ELSE nToggle
          /\ lpc' = CASE IsQuit(user_input')   -> "q_flag"
                      [] IsDrive(user_input')  -> "d_flag"
                      [] IsToggle(user_input') -> "p_toggle"
                      [] OTHER                 -> "input"
    /\ nIn' = nIn + 1
    /\ UNCHANGED <<pbytes, shared, angle, lines, devices, mpc, writing, chan,
                   flagKind, stale, acted, polled, dropped, lost>>

\* line 160: input() raises EOFError (stdin closed): the thread ends
InputEOF ==
    /\ Alive
    /\ lpc = "input"
    /\ lpc' = "dead"
    /\ UNCHANGED <<pbytes, shared, locals, devices, mpc, writing, chan, hist>>

\* key_input_flag = True, by the line being handled
RaiseFlag(kind) ==
    /\ key_input_flag' = TRUE
    /\ flagKind' = IF key_input_flag THEN flagKind ELSE kind
    /\ stale' = IF key_input_flag THEN stale ELSE TRUE

\* command = value, by the line being handled
Deposit(value) ==
    /\ command' = StoreCommand(command, value)
    /\ stale' = FALSE
    /\ acted' = FALSE
    /\ dropped' = (IF polled THEN dropped ELSE dropped \cup {command}) \ {value}
    /\ polled' = FALSE

\* line 164: key_input_flag = True
QFlag ==
    /\ Alive
    /\ lpc = "q_flag"
    /\ RaiseFlag("q")
    /\ lpc' = "q_cmd"
    /\ UNCHANGED <<pbytes, command, paused, locals, devices, mpc, writing, chan,
                   nIn, nToggle, acted, polled, dropped, lost>>

\* lines 165-166: command = 'q'; break
QCmd ==
    /\ Alive
    /\ lpc = "q_cmd"
    /\ Deposit(<<"q">>)
    /\ lpc' = "done"
    /\ UNCHANGED <<pbytes, key_input_flag, paused, locals, devices, mpc, writing, chan,
                   nIn, nToggle, flagKind, lost>>

\* line 168: key_input_flag = True
DFlag ==
    /\ Alive
    /\ lpc = "d_flag"
    /\ RaiseFlag("drive")
    /\ lpc' = "d_cmd"
    /\ UNCHANGED <<pbytes, command, paused, locals, devices, mpc, writing, chan,
                   nIn, nToggle, acted, polled, dropped, lost>>

\* line 169: command = user_input
DCmd ==
    /\ Alive
    /\ lpc = "d_cmd"
    /\ Deposit(user_input)
    /\ user_input' = NoInput
    /\ lpc' = "input"
    /\ UNCHANGED <<pbytes, key_input_flag, paused, angle, lines, devices, mpc, writing, chan,
                   nIn, nToggle, flagKind, lost>>

\* line 171: paused = not paused
PToggle ==
    /\ Alive
    /\ lpc = "p_toggle"
    /\ paused' = Flip(paused)
    /\ lpc' = "p_flag"
    /\ UNCHANGED <<pbytes, key_input_flag, command, locals, devices, mpc, writing, chan, hist>>

\* line 172: key_input_flag = True
PFlag ==
    /\ Alive
    /\ lpc = "p_flag"
    /\ RaiseFlag("p")
    /\ lpc' = "p_write"
    /\ UNCHANGED <<pbytes, command, paused, locals, devices, mpc, writing, chan,
                   nIn, nToggle, acted, polled, dropped, lost>>

\* line 173 -> 146: ser.write(b'p') is called, on the key-input thread
PWriteCall ==
    /\ Alive
    /\ lpc = "p_write"
    /\ chan' = Log(Entry(PauseByte, "listener", FALSE, FALSE, FALSE))
    /\ writing' = writing \cup {"listener"}
    /\ lpc' = "p_write_ret"
    /\ UNCHANGED <<pbytes, shared, locals, devices, mpc, hist>>

\* lines 146, 174-177: the write returns, the status line is printed
PWriteRet ==
    /\ Alive
    /\ lpc = "p_write_ret"
    /\ ser = "open"
    /\ writing' = writing \ {"listener"}
    /\ pWritten' = (IF PauseByte = <<"p">> THEN ~pWritten ELSE pWritten)
    /\ user_input' = NoInput
    /\ lpc' = "input"
    /\ UNCHANGED <<pFailed, shared, angle, lines, devices, mpc, chan, hist>>

\* line 146 raises (write error, or the port is closed): the thread ends
PWriteFail ==
    /\ Alive
    /\ lpc = "p_write_ret"
    /\ writing' = writing \ {"listener"}
    /\ pFailed' = TRUE
    /\ lpc' = "dead"
    /\ UNCHANGED <<pWritten, shared, locals, devices, mpc, chan, hist>>

\* -------------------------------------------------------- specifications
\* the statements of the main thread, run in program order
MainStep ==
    \/ OpenSerial \/ CamCreate \/ CamStart \/ ThreadStart
    \/ ChkFlag \/ ChkQ \/ ChkP \/ WriteCmdCall \/ WriteCmdRet \/ ResetFlag
    \/ ChkPaused \/ Perceive \/ SendAngleCall \/ SendAngleRet \/ WaitKey
    \/ ExceptKI \/ FinStop \/ FinStopNameError \/ FinClose \/ FinSerClose
    \/ ProcessExit

\* the statements of the key-input thread after input() has returned
ListenerStep ==
    \/ QFlag \/ QCmd \/ DFlag \/ DCmd \/ PToggle \/ PFlag \/ PWriteCall \/ PWriteRet

\* what the operator, the devices and the operating system do
Environment ==
    \/ Input \/ InputEOF
    \/ OpenSerialFail \/ CamCreateFail \/ CamStartFail
    \/ WriteCmdFail \/ PerceiveFail \/ SendAngleFail \/ PWriteFail
    \/ WindowQuit \/ KeyboardInterrupt

Next == MainStep \/ ListenerStep \/ Environment

Spec == Init /\ [][Next]_vars

\* both threads keep being scheduled while they have a statement to run
FairSpec == Spec /\ WF_vars(MainStep) /\ WF_vars(ListenerStep)

\* the main loop running, no line entered yet, nothing written yet
LoopState ==
    /\ key_input_flag = FALSE
    /\ command = << >>
    /\ paused = FALSE
    /\ user_input = NoInput
    /\ picam2 = "started"
    /\ ser = "open"
    /\ lpc = "input"
    /\ writing = {}
    /\ chan = << >>
    /\ nIn = 0 /\ nToggle = 0
    /\ flagKind = "none"
    /\ stale = FALSE
    /\ acted = TRUE
    /\ polled = TRUE
    /\ dropped = {}
    /\ lost = FALSE
    /\ pWritten = FALSE /\ pFailed = FALSE
    /\ nSerClose = 0 /\ nCamClose = 0

\* the values line 234 may be called with
Angles == { [n |-> n, d |-> d] : n \in (-MaxNum)..MaxNum, d \in 1..MaxDen }

\* send_angle_to_arduino on every angle of Angles
AngleInit ==
    /\ LoopState
    /\ mpc = "send_angle"
    /\ lines = NoLinesYet
    /\ angle \in Angles

AngleNext == SendAngleCall \/ SendAngleRet

AngleSpec == AngleInit /\ [][AngleNext]_vars

\* lines 225-234 on every HoughLinesP result of AllLineSets
PerceptionInit ==
    /\ LoopState
    /\ mpc = "perceive"
    /\ lines = NoLinesYet
    /\ angle = NoAngle

PerceiveAll == PerceiveFrom(AllLineSets)

PerceptionNext == PerceiveAll \/ SendAngleCall \/ SendAngleRet

PerceptionSpec == PerceptionInit /\ [][PerceptionNext]_vars

\* ------------------------------------------------------------ properties
ChanIdx == 1..Len(chan)

\* C1: while paused is True the main loop writes no angle frame: no
\* send_angle_to_arduino call is made at a moment when paused is True.
C1_NoAngleWhilePaused ==
    \A i \in ChanIdx :
        ~(chan[i].by = "main" /\ IsAngleFrame(chan[i].b) /\ chan[i].paused)

LoopEnded == mpc \in {"fin_stop", "fin_close", "fin_ser_close", "shutdown", "exited"}

\* C3: once the operator has entered q, the main loop eventually leaves the
\* loop (checked under FairSpec).
C3_QuitLeadsToExit == (lpc = "q_flag") ~> LoopEnded

\* C4: when the process has exited after the channel was opened, ser.close()
\* has run exactly once, and so has picam2.close() if a camera was created.
C4_ReleasedOnExit ==
    (mpc = "exited" /\ ser # "unopened") =>
        /\ nSerClose = 1
        /\ picam2 # "unbound" => nCamClose = 1

\* C5: the main loop never writes a command while the deposit that raised
\* the flag has not yet assigned command, and line 203 never clears a
\* deposited command that was not acted on.
C5_MostRecentCommand ==
    /\ ~lost
    /\ \A i \in ChanIdx : ~chan[i].half

\* C6: a value overwritten in the slot with no poll in between is no longer
\* in the slot, and the main loop never writes it to the channel.
C6_LastWriteWins ==
    /\ command \notin dropped
    /\ \A i \in ChanIdx : ~chan[i].dropped

\* two commands were deposited with no poll in between, and the main loop
\* has since written the second one
C6_Witness ==
    /\ dropped # {}
    /\ acted
    /\ chan # << >>
    /\ chan[1].by = "main"
    /\ chan[1].b = command
    /\ command \in {<<"w">>, <<"s">>}

\* C7: no command write of the main loop is the effect of a toggle: the main
\* loop never writes the old content of command for a flag raised by p.
C7_ToggleWritesOnlyP ==
    \A i \in ChanIdx : ~chan[i].tog

\* C8: once a toggle line has been handled, paused is True exactly when the
\* number of toggle lines entered so far is odd.
C8_ToggleParity ==
    lpc # "p_toggle" => (paused <=> (nToggle % 2 = 1))

\* the second toggle has been handled and the mode is Autonomous again
C8_Witness ==
    /\ nToggle = 2
    /\ lpc = "p_flag"
    /\ ~paused

DriveTokens == { <<c>> : c \in {"w", "s", "a", "d", "x", "+", "-"} }

\* C9: a drive command read at line 201 is handed to ser.write as that one
\* character, whatever the mode, and no step of the main loop's command
\* handling (lines 193-203) changes paused.
C9_DriveCommandWritten ==
    [][ /\ (mpc = "write_cmd" /\ mpc' = "write_cmd_ret" /\ command \in DriveTokens)
            => (chan' # << >> /\ chan'[1].by = "main" /\ chan'[1].b = command)
        /\ (mpc \in {"chk_flag", "chk_q", "chk_p", "write_cmd", "write_cmd_ret",
                     "reset_flag"} /\ mpc' # mpc)
            => paused' = paused ]_vars

\* a drive character is being written by the main loop in ManualPaused mode
C9_Witness ==
    /\ mpc = "write_cmd_ret"
    /\ paused
    /\ chan # << >>
    /\ chan[1].by = "main"
    /\ chan[1].paused
    /\ chan[1].b \in DriveTokens

Tokens == DriveTokens \cup { <<"p">>, <<"q">> }

\* C10: reading a line that, trimmed and lower-cased, is none of the nine
\* tokens changes neither the mode nor the slot nor the channel, and leaves
\* the thread waiting for the next line.
C10_UnrecognizedIgnored ==
    [][ (nIn' = nIn + 1 /\ user_input' \notin Tokens)
            => /\ UNCHANGED <<key_input_flag, command, paused, chan, writing>>
               /\ lpc' = "input" ]_vars

\* an unrecognized line has been read while a command was pending
C10_Witness ==
    /\ nIn > 1
    /\ user_input = <<"z">>
    /\ lpc = "input"
    /\ key_input_flag

\* C11: a write of the main loop that raises does not end the loop: whichever
\* way ser.write returns at line 201 or line 137, the main loop goes on with
\* the next statement of the loop.
C11_WriteFailureAbsorbed ==
    [][ (mpc \in {"write_cmd_ret", "send_angle_ret"} /\ mpc' # mpc /\ mpc' # "except_ki")
            => ~LoopEnded' ]_vars

\* C12: while the serial port has not been opened, the camera is not created,
\* the key-input thread is not started, nothing is written, and the main
\* thread is at line 34 or the process has exited.
C12_OpenFailureIsFatal ==
    ser = "unopened" =>
        /\ mpc \in {"open_serial", "exited"}
        /\ picam2 = "unbound"
        /\ lpc = "off"
        /\ chan = << >>
        /\ writing = {}

\* serial.Serial raised and the process has exited
C12_Witness ==
    /\ ser = "unopened"
    /\ mpc = "exited"

Abs(x) == IF x >= 0 THEN x ELSE -x

\* C13: send_angle_to_arduino writes A<k>\n where k is the angle truncated
\* toward zero: |k| <= |a| < |k| + 1 and k has the sign of a (checked under
\* AngleSpec, for every angle n/d of Angles).
C13_TruncTowardZero ==
    [][ (mpc = "send_angle" /\ mpc' = "send_angle_ret")
            => LET b == chan'[1].b
                   k == b[2]
               IN  /\ Len(b) = 3 /\ b[1] = "A" /\ b[3] = "\n"
                   /\ Abs(k) * angle.d <= Abs(angle.n)
                   /\ Abs(angle.n) < (Abs(k) + 1) * angle.d
                   /\ angle.n >= 0 => k >= 0
                   /\ angle.n <= 0 => k <= 0
                   /\ (angle.n = 379 /\ angle.d = 10) => k = 37
                   /\ (angle.n = -379 /\ angle.d = 10) => k = -37 ]_vars

\* a negative angle that is no whole number of degrees has been sent as A-37\n
C13_Witness ==
    /\ mpc = "send_angle_ret"
    /\ chan # << >>
    /\ chan[1].b = <<"A", -37, "\n">>

Undetected(l) == l.kind = "None" \/ (l.kind = "list" /\ l.segs = << >>)

\* C14: when HoughLinesP yields None or an empty list, calculate_angle
\* returns exactly 0 and the main loop sends the frame A0\n.
C14_NoLinesSendsZero ==
    [][ /\ (mpc = "perceive" /\ Undetected(lines'))
            => (mpc' = "send_angle" /\ angle' = [n |-> 0, d |-> 1])
        /\ (mpc = "send_angle" /\ mpc' = "send_angle_ret" /\ Undetected(lines))
            => (chan' # << >> /\ chan'[1].by = "main" /\ chan'[1].b = <<"A", 0, "\n">>)
      ]_vars

\* the frame A0\n is being sent for an empty list of segments
C14_Witness ==
    /\ mpc = "send_angle_ret"
    /\ lines = [kind |-> "list", segs |-> << >>]
    /\ chan # << >>
    /\ chan[1].b = <<"A", 0, "\n">>

Detected == mpc = "send_angle" /\ lines.kind = "list" /\ lines.segs # << >>

Toggling == lpc \in {"p_toggle", "p_flag", "p_write", "p_write_ret"}

\* C16 as stated: whenever the key-input thread is not in the middle of a
\* toggle, paused is True exactly when an odd number of p bytes has been
\* written to the channel.
C16_PausedMatchesPBytes ==
    ~Toggling => (paused <=> pWritten)

\* C16 as amended: whenever the key-input thread is not in the middle of a
\* toggle, paused is True exactly when the p bytes written plus the toggle
\* writes that raised are odd in number; and the p byte is written by the
\* key-input thread only.
C16_PausedMatchesPAttempts ==
    /\ ~Toggling => (paused <=> (pWritten # pFailed))
    /\ \A i \in ChanIdx : chan[i].b = <<"p">> => chan[i].by = "listener"

\* two toggles have been written and the thread waits for the next line
C16_Witness ==
    /\ nToggle = 2
    /\ lpc = "input"
    /\ ~paused
    /\ ~pWritten
    /\ ~pFailed
    /\ chan # << >>
    /\ chan[1].b = <<"p">>

\* C17: ser.write is never called once ser.close() has run.
C17_NoWriteAfterClose ==
    \A i \in ChanIdx : chan[i].open

\* C18: a drive command that the key-input thread deposits while paused is
\* True is eventually written by the main loop, unless the loop has ended or
\* the operator has entered another line (checked under FairSpec).
C18_PausedCommandWritten ==
    \A k \in 0..MaxInputs :
        (lpc = "d_cmd" /\ paused /\ nIn = k)
            ~> ((lpc # "d_cmd" /\ acted) \/ LoopEnded \/ nIn > k)
====
